---------------------------- MODULE Spec2Model ----------------------------
(***************************************************************************)
(* Region negotiation of itk::TemporalProcessObject                        *)
(* (itkTemporalProcessObject.cxx).                                         *)
(*                                                                         *)
(* A stage has one input and one output data object.  Each temporal data   *)
(* object carries temporal regions (frameStart, frameDuration).  The       *)
(* operations modelled here are the region callbacks of the stage:         *)
(* EnlargeOutputRequestedRegion, GenerateInputRequestedRegion,             *)
(* UpdateOutputInformation and SplitRequestedTemporalRegion, and the       *)
(* streaming loop of GenerateData, one action per statement that calls     *)
(* out of the stage.                                                       *)
(*                                                                         *)
(* The module also covers the size check of the VNL FFT filters            *)
(* (itkVnlForwardFFTImageFilter.hxx, itkVnlInverseFFTImageFilter.hxx):     *)
(* IsDimensionSizeLegal and the part of GenerateData that decides whether  *)
(* the transform is called.                                                *)
(*                                                                         *)
(* Machine words.  The C++ code computes in `unsigned long' and `long'.    *)
(* A word is represented by its two's-complement (signed) reading, on      *)
(* which +, - and * agree with the unsigned operations modulo 2^w.  A      *)
(* frameDuration (unsigned) whose word is negative therefore stands for    *)
(* the wrapped-around value 2^w + word; see Wrapped and DurationIs.        *)
(***************************************************************************)
EXTENDS Integers, Sequences, FiniteSets

(***************************************************************************)
(* Bounds of the explored configurations and regions.                      *)
(***************************************************************************)
MaxUnitInput == 3

MaxUnitOutput == 3

MaxFrameSkip == 2

MaxStencil == 1

MaxFrameStart == 2

MaxFrameDuration == 4

MaxBuffered == 1

\* Largest ImageDimension and largest size per dimension of the images
\* given to the FFT filters.
MaxImageDimension == 4

MaxDimensionSize == 7

\* Start frames of the documented scenarios ([5,1) and [10,4)).
ScenarioFrameStarts == {5, 10}

FrameStarts == (0..MaxFrameStart) \cup ScenarioFrameStarts

VARIABLES
  m_UnitInputNumberOfFrames,        \* frames consumed per step
  m_UnitOutputNumberOfFrames,       \* frames produced per step
  m_FrameSkipPerOutput,             \* signed stride between input windows
  m_InputStencilCurrentFrameIndex,  \* offset of the current frame in a window
  input,                            \* GetInput(0)
  output,                           \* GetOutput(0)
  call,                             \* the last callback: its pre-state and outcome
  hookOverridden,                   \* the stage's class overrides
                                    \* TemporalStreamingGenerateData
  gd,                               \* the activation of GenerateData: position
                                    \* and locals
  log,                              \* the calls made by the callback in `call'
  fft                               \* a VNL FFT filter, its image and the
                                    \* activation of its GenerateData

vars == << m_UnitInputNumberOfFrames, m_UnitOutputNumberOfFrames,
           m_FrameSkipPerOutput, m_InputStencilCurrentFrameIndex,
           input, output, call, hookOverridden, gd, log, fft >>

config == << m_UnitInputNumberOfFrames, m_UnitOutputNumberOfFrames,
             m_FrameSkipPerOutput, m_InputStencilCurrentFrameIndex >>

(***************************************************************************)
(* TemporalRegion and TemporalDataObject.                                  *)
(***************************************************************************)
TemporalRegion(start, duration) ==
  [frameStart |-> start, frameDuration |-> duration]

\* A default-constructed region.
EmptyRegion == TemporalRegion(0, 0)

\* A data object; `temporal' is the outcome of
\* dynamic_cast<TemporalDataObject*>.  A non-temporal object has no
\* temporal regions; its region fields are never read.
TemporalDataObject(largest, requested, buffered) ==
  [temporal  |-> TRUE,
   largest   |-> largest,
   requested |-> requested,
   buffered  |-> buffered]

NonTemporalDataObject ==
  [temporal  |-> FALSE,
   largest   |-> EmptyRegion,
   requested |-> EmptyRegion,
   buffered  |-> EmptyRegion]

Max(a, b) == IF a >= b THEN a ELSE b

\* The part of `requested' that `buffered' does not cover, for a buffer that
\* starts no later than the request.
GetUnbufferedRequestedTemporalRegion(obj) ==
  LET reqStart == obj.requested.frameStart
      reqEnd   == reqStart + obj.requested.frameDuration
      bufEnd   == obj.buffered.frameStart + obj.buffered.frameDuration
      from     == Max(reqStart, bufEnd)
  IN  IF obj.buffered.frameDuration = 0 THEN obj.requested
      ELSE IF from >= reqEnd THEN TemporalRegion(reqEnd, 0)
      ELSE TemporalRegion(from, reqEnd - from)

(***************************************************************************)
(* Words.                                                                  *)
(***************************************************************************)
\* The unsigned value of the word has wrapped around (it is >= 2^(w-1)).
Wrapped(word) == word < 0

\* The unsigned value of `word' is the mathematical integer n.
DurationIs(word, n) == ~Wrapped(word) /\ word = n

\* ceil((double)a / (double)b) for a >= 0, b > 0.
CeilDiv(a, b) == (a + b - 1) \div b

\* A region holds no frame outside `outer'.  A wrapped duration reaches
\* beyond every frame of the model.
IsInside(inner, outer) ==
  \/ inner.frameDuration = 0
  \/ /\ ~Wrapped(inner.frameDuration)
     /\ inner.frameStart >= outer.frameStart
     /\ \/ Wrapped(outer.frameDuration)
        \/ inner.frameStart + inner.frameDuration
             <= outer.frameStart + outer.frameDuration

(***************************************************************************)
(* Casts and the single thread of control.                                 *)
(***************************************************************************)
\* A cast that never yields a null pointer.
CastAlwaysSucceeds(obj) == TRUE

\* dynamic_cast<TemporalDataObject*>(obj) is not null.
IsTemporalDataObject(obj) == obj.temporal

\* No GenerateData is on the stack.
IdleActivation ==
  [pc |-> "idle", i |-> 0, requests |-> << >>, outputStartFrame |-> 0]

\* A region callback runs to completion on the calling thread; it is not
\* entered while GenerateData is running, and it makes no calls out of the
\* stage.
RunsToCompletion ==
  /\ gd = IdleActivation
  /\ gd' = gd
  /\ log' = << >>
  /\ hookOverridden' = hookOverridden
  /\ fft' = fft

\* A pipeline without an FFT filter.
NoFilter ==
  [filter |-> "none", size |-> << >>, pc |-> "idle", i |-> 0,
   checked |-> << >>, transformed |-> FALSE, result |-> "none"]

(***************************************************************************)
(* EnlargeOutputRequestedTemporalRegion                                    *)
(***************************************************************************)
\* A round-down slip: drops the remainder instead of completing the unit.
EnlargedFrameDurationRoundDown(outFrameDuration, unitOutput) ==
  outFrameDuration - (outFrameDuration % unitOutput)

\* A slip that adds a whole unit even when the remainder is 0.
EnlargedFrameDurationAlwaysAdd(outFrameDuration, unitOutput) ==
  outFrameDuration + (unitOutput - (outFrameDuration % unitOutput))

EnlargedFrameDuration(outFrameDuration, unitOutput) ==
  LET remainder == outFrameDuration % unitOutput
  IN  IF remainder > 0
      THEN outFrameDuration + (unitOutput - remainder)
      ELSE outFrameDuration

EnlargeOutputRequestedTemporalRegion(obj) ==
  [obj EXCEPT !.requested.frameDuration =
     EnlargedFrameDuration(obj.requested.frameDuration,
                           m_UnitOutputNumberOfFrames)]

Record(op, result, ret) ==
  [op |-> op, result |-> result, input |-> input, output |-> output,
   ret |-> ret]

EnlargeOutputRequestedRegion ==
  /\ RunsToCompletion
  /\ IF IsTemporalDataObject(output)
     THEN /\ output' = EnlargeOutputRequestedTemporalRegion(output)
          /\ call' = Record("EnlargeOutputRequestedRegion", "ok", << >>)
     ELSE /\ output' = output
          /\ call' = Record("EnlargeOutputRequestedRegion", "TypeMismatch", << >>)
  /\ UNCHANGED << config, input >>

(***************************************************************************)
(* GenerateInputRequestedRegion / GenerateInputRequestedTemporalRegion     *)
(***************************************************************************)
\* Number of unit requests: (unsigned long)ceil(duration / unitOutput).
NumInputRequests(outFrameDuration, unitOutput) ==
  CeilDiv(outFrameDuration, unitOutput)

\* unsigned long inputDuration = skip * (numInputRequests - 1) + unitInput,
\* evaluated on words: numInputRequests - 1 is the word -1 when there is no
\* request, and a negative result is a wrapped-around duration.
InputDuration(numInputRequests, frameSkip, unitInput) ==
  frameSkip * (numInputRequests - 1) + unitInput

InputStart(outFrameStart, stencil) == outFrameStart - stencil

\* A guard that lets frame -1 through.
IsNegativeFrameOffByOne(inputStart) == inputStart < -1

IsNegativeFrame(inputStart) == inputStart < 0

\* A region that grows the one the input already carries.
NewInputRequestedRegionExtending(previous, inputStart, inputDuration) ==
  TemporalRegion(inputStart, previous.frameDuration + inputDuration)

\* TemporalRegion inReqTempRegion; SetFrameStart; SetFrameDuration: a fresh
\* region, whatever the input carried before.
NewInputRequestedRegion(previous, inputStart, inputDuration) ==
  TemporalRegion(inputStart, inputDuration)

\* What dereferencing the null result of a failed dynamic_cast can do.
NullDereferenceOutcomes == { "SegmentationFault", "ok" }

\* The body after the casts of lines 550-551; `result' is the outcome.
GenerateInputRequestedTemporalRegion(result) ==
  LET outReqTempRegion == output.requested
      numInputRequests == NumInputRequests(outReqTempRegion.frameDuration,
                                           m_UnitOutputNumberOfFrames)
      inputDuration == InputDuration(numInputRequests, m_FrameSkipPerOutput,
                                     m_UnitInputNumberOfFrames)
      inputStart == InputStart(outReqTempRegion.frameStart,
                               m_InputStencilCurrentFrameIndex)
  IN  IF IsNegativeFrame(inputStart)
      THEN /\ result = "InvalidRegion"
           /\ input' = input
      ELSE IF IsTemporalDataObject(input)
      THEN /\ result = "ok"
           /\ input' = [input EXCEPT
                          !.requested =
                            NewInputRequestedRegion(input.requested,
                                                    inputStart, inputDuration)]
      ELSE \* input is a null pointer here: undefined behaviour
           /\ result \in NullDereferenceOutcomes
           /\ input' = input

GenerateInputRequestedRegion ==
  LET tOutput == IsTemporalDataObject(output)
      tInput  == IsTemporalDataObject(output)   \* line 521 casts GetOutput(0) again
  IN  /\ RunsToCompletion
      /\ \E result \in { "ok", "TypeMismatch", "InvalidRegion",
                         "SegmentationFault" } :
           /\ IF ~tOutput
              THEN result = "TypeMismatch" /\ input' = input
              ELSE IF ~tInput
              THEN result = "TypeMismatch" /\ input' = input
              ELSE GenerateInputRequestedTemporalRegion(result)
           /\ call' = Record("GenerateInputRequestedRegion", result, << >>)
      /\ UNCHANGED << config, output >>

(***************************************************************************)
(* UpdateOutputInformation                                                 *)
(***************************************************************************)
\* Quotient a / b truncated toward zero (the double -> long conversion).
TruncQuot(a, b) ==
  LET q(x, y) == IF x >= 0 THEN x \div y ELSE -((-x) \div y)
  IN  IF b > 0 THEN q(a, b) ELSE q(-a, -b)

\* Triples (unitOutput, scannableDuration - 1, frameSkip) for which the
\* IEEE-754 binary64 evaluation of unitOutput * (x / frameSkip + 1) falls
\* just short of its exact integer value (1/3 is not representable), so
\* that the conversion to long loses one.  Exhaustive for unitOutput <= 4,
\* |frameSkip| <= 4 and -8 <= x <= 9.
DoubleRoundsShort ==
  { << 3, 4, 3 >>, << 3, -4, -3 >>, << 3, -4, 3 >>, << 3, 4, -3 >> }

ScannableDuration(inputLargestDuration, unitInput) ==
  inputLargestDuration - unitInput + 1

\* long outputDuration =
\*   unitOutput * ((double)(scannableDuration - 1) / (double)frameSkip + 1)
\* for frameSkip # 0: the product is formed in double, unfloored, and then
\* truncated.
OutputDuration(scannableDuration, unitOutput, frameSkip) ==
  LET x     == scannableDuration - 1
      numer == unitOutput * (x + frameSkip)
      exact == TruncQuot(numer, frameSkip)
  IN  IF << unitOutput, x, frameSkip >> \in DoubleRoundsShort
      THEN IF exact > 0 THEN exact - 1 ELSE exact + 1
      ELSE exact

\* A sign slip in the stencil alignment.
OutputStartSubtract(inputLargestStart, stencil) == inputLargestStart - stencil

OutputStart(inputLargestStart, stencil) == inputLargestStart + stencil

\* Results of converting an infinite or NaN double to long (frameSkip = 0):
\* undefined behaviour, any word.
IndeterminateLongs == { -1, 0, 1 }

UpdateOutputInformation ==
  /\ RunsToCompletion
  /\ IF ~IsTemporalDataObject(input) \/ ~IsTemporalDataObject(output)
     THEN /\ output' = output
          /\ call' = Record("UpdateOutputInformation", "TypeMismatch", << >>)
     ELSE LET inputLargestRegion == input.largest
              scannableDuration ==
                ScannableDuration(inputLargestRegion.frameDuration,
                                  m_UnitInputNumberOfFrames)
              outputStart == OutputStart(inputLargestRegion.frameStart,
                                         m_InputStencilCurrentFrameIndex)
          IN  /\ \E outputDuration \in
                     IF m_FrameSkipPerOutput = 0
                     THEN IndeterminateLongs
                     ELSE { OutputDuration(scannableDuration,
                                           m_UnitOutputNumberOfFrames,
                                           m_FrameSkipPerOutput) } :
                   output' = [output EXCEPT
                                !.largest = TemporalRegion(outputStart,
                                                           outputDuration)]
              /\ call' = Record("UpdateOutputInformation", "ok", << >>)
  /\ UNCHANGED << config, input >>

(***************************************************************************)
(* SplitRequestedTemporalRegion                                            *)
(***************************************************************************)
\* Integer division in place of the double division under ceil.
NumRequestsFloor(unbufferedDuration, unitOutput) ==
  unbufferedDuration \div unitOutput

\* (unsigned long)ceil((double)(duration / (double)unitOutput))
NumRequests(unbufferedDuration, unitOutput) ==
  CeilDiv(unbufferedDuration, unitOutput)

\* The reverse start measured with the input unit.
RegionStartFrameUnitInput(unbufferedRegion, frameSkip, unitInput, unitOutput) ==
  IF frameSkip > 0 THEN unbufferedRegion.frameStart
  ELSE IF frameSkip < 0
  THEN unbufferedRegion.frameStart + unbufferedRegion.frameDuration - unitInput
  ELSE 1

\* Forward traversal started one frame late.
RegionStartFrameLate(unbufferedRegion, frameSkip, unitInput, unitOutput) ==
  IF frameSkip > 0 THEN unbufferedRegion.frameStart + 1
  ELSE IF frameSkip < 0
  THEN unbufferedRegion.frameStart + unbufferedRegion.frameDuration - unitOutput
  ELSE 1

\* A zero stride that starts where the unbuffered request starts.
RegionStartFrameAtRequest(unbufferedRegion, frameSkip, unitInput, unitOutput) ==
  IF frameSkip > 0 THEN unbufferedRegion.frameStart
  ELSE IF frameSkip < 0
  THEN unbufferedRegion.frameStart + unbufferedRegion.frameDuration - unitOutput
  ELSE unbufferedRegion.frameStart

\* unsigned long regionStartFrame = 1, reassigned for a non-zero skip.
RegionStartFrame(unbufferedRegion, frameSkip, unitInput, unitOutput) ==
  IF frameSkip > 0 THEN unbufferedRegion.frameStart
  ELSE IF frameSkip < 0
  THEN unbufferedRegion.frameStart + unbufferedRegion.frameDuration - unitOutput
  ELSE 1

\* A step that always walks forward.
NextRegionStartFrameForward(regionStartFrame, frameSkip) ==
  regionStartFrame + (IF frameSkip < 0 THEN -frameSkip ELSE frameSkip)

\* A step that moves on by one frame when the stride is zero.
NextRegionStartFrameNeverStill(regionStartFrame, frameSkip) ==
  regionStartFrame + (IF frameSkip = 0 THEN 1 ELSE frameSkip)

\* regionStartFrame += m_FrameSkipPerOutput
NextRegionStartFrame(regionStartFrame, frameSkip) ==
  regionStartFrame + frameSkip

RECURSIVE SplitLoop(_, _, _, _, _, _)
\* The for loop of lines 747-757.
SplitLoop(i, numRequests, regionStartFrame, frameSkip, unitInput, requests) ==
  IF i < numRequests
  THEN SplitLoop(i + 1, numRequests,
                 NextRegionStartFrame(regionStartFrame, frameSkip),
                 frameSkip, unitInput,
                 Append(requests, TemporalRegion(regionStartFrame, unitInput)))
  ELSE requests

\* A split that drops the windows the upstream cannot provide.
InputTemporalRegionRequestsClamped(outputObject) ==
  LET unbufferedRegion == GetUnbufferedRequestedTemporalRegion(outputObject)
      numRequests == NumRequests(unbufferedRegion.frameDuration,
                                 m_UnitOutputNumberOfFrames)
      regionStartFrame == RegionStartFrame(unbufferedRegion,
                                           m_FrameSkipPerOutput,
                                           m_UnitInputNumberOfFrames,
                                           m_UnitOutputNumberOfFrames)
      inRange(r) == IsInside(r, input.largest)
  IN  SelectSeq(SplitLoop(0, numRequests, regionStartFrame,
                          m_FrameSkipPerOutput, m_UnitInputNumberOfFrames,
                          << >>),
                inRange)

\* The vector returned for a temporal output object.
InputTemporalRegionRequests(outputObject) ==
  LET unbufferedRegion == GetUnbufferedRequestedTemporalRegion(outputObject)
      numRequests == NumRequests(unbufferedRegion.frameDuration,
                                 m_UnitOutputNumberOfFrames)
      regionStartFrame == RegionStartFrame(unbufferedRegion,
                                           m_FrameSkipPerOutput,
                                           m_UnitInputNumberOfFrames,
                                           m_UnitOutputNumberOfFrames)
  IN  SplitLoop(0, numRequests, regionStartFrame, m_FrameSkipPerOutput,
                m_UnitInputNumberOfFrames, << >>)

SplitRequestedTemporalRegion ==
  /\ RunsToCompletion
  /\ IF ~IsTemporalDataObject(output)
     THEN call' = Record("SplitRequestedTemporalRegion", "TypeMismatch", << >>)
     ELSE call' = Record("SplitRequestedTemporalRegion", "ok",
                         InputTemporalRegionRequests(output))
  /\ UNCHANGED << config, input, output >>

(***************************************************************************)
(* GenerateData.  Positions: "split" (line 642), "loop" (line 659),        *)
(* "pull" (line 672), "hook" (line 675), "after" (line 682).               *)
(***************************************************************************)
Event(ev, step, frame, ok) ==
  [ev |-> ev, step |-> step, frame |-> frame, ok |-> ok]

\* An entry that forgets the pre-processing hook.
EntryLogWithoutBefore == << >>

\* this->BeforeTemporalStreamingGenerateData(), the first statement.
EntryLog == << Event("Before", 0, 0, TRUE) >>

\* The post-processing hook run on the way out of a failed step.
ExceptionExitThroughAfter == "after"

\* Where control goes when a statement throws: no handler in GenerateData,
\* the exception leaves the function.
ExceptionExit == "idle"

\* The hook called before the input has been pulled.
AfterSetRequestedHookFirst == "hook"

\* The statement after input->SetRequestedTemporalRegion(...).
AfterSetRequested == "pull"

\* Output frames advanced by one per step.
NextOutputStartFrameByOne(outputStartFrame, unitOutput) ==
  outputStartFrame + 1

\* outputStartFrame += m_UnitOutputNumberOfFrames
NextOutputStartFrame(outputStartFrame, unitOutput) ==
  outputStartFrame + unitOutput

\* A loop counter that is not advanced.
NextStepStuck(i) == i

\* ++i
NextStep(i) == i + 1

\* One request for the span of all remaining windows.
StepRequestWholeSpan(requests, i) ==
  TemporalRegion(requests[i + 1].frameStart,
                 Len(requests) * requests[i + 1].frameDuration)

\* inputTemporalRegionRequests[i]
StepRequest(requests, i) == requests[i + 1]

\* A loop that stops one window early.
LoopContinuesButLast(i, requests) == i < Len(requests) - 1

\* i < inputTemporalRegionRequests.size()
LoopContinues(i, requests) == i < Len(requests)

\* unsigned long outputStartFrame =
\*   output->GetUnbufferedRequestedTemporalRegion().GetFrameStart()
\* A start that ignores what the output already holds.
FirstOutputStartFrameRequested(outputObject) ==
  outputObject.requested.frameStart

FirstOutputStartFrame(outputObject) ==
  GetUnbufferedRequestedTemporalRegion(outputObject).frameStart

\* A base implementation that does nothing.
BaseHookOutcomesNoOp == { "ok" }

\* TemporalProcessObject::TemporalStreamingGenerateData: always throws.
BaseHookOutcomes == { "Unimplemented" }

\* An overriding implementation returns or throws.
OverriddenHookOutcomes == { "ok", "HookError" }

\* input->UpdateOutputData() returns or throws.
PullOutcomes == { "ok", "UpstreamError" }

\* The upstream fills the buffer to cover the requested region.
UpdateOutputData(obj) == [obj EXCEPT !.buffered = obj.requested]

\* An exception leaves GenerateData.
Unwind(error) ==
  /\ gd' = IF ExceptionExit = "idle" THEN IdleActivation
           ELSE [gd EXCEPT !.pc = ExceptionExit]
  /\ call' = [call EXCEPT !.result = error]

\* Entry and line 639.
GenerateDataBegin ==
  /\ gd = IdleActivation
  /\ gd' = [gd EXCEPT !.pc = "split"]
  /\ log' = EntryLog
  /\ call' = Record("GenerateData", "running", << >>)
  /\ UNCHANGED << config, input, output, hookOverridden, fft >>

\* Lines 642-656.
GenerateDataSplit ==
  /\ gd.pc = "split"
  /\ IF ~IsTemporalDataObject(output)
     THEN /\ Unwind("TypeMismatch")
          /\ log' = Append(log, Event("Split", 0, 0, FALSE))
     ELSE LET inputTemporalRegionRequests == InputTemporalRegionRequests(output)
          IN  /\ gd' = [pc |-> "loop", i |-> 0,
                        requests |-> inputTemporalRegionRequests,
                        outputStartFrame |-> FirstOutputStartFrame(output)]
              /\ call' = [call EXCEPT !.ret = inputTemporalRegionRequests]
              /\ log' = Append(log, Event("Split", 0, 0, TRUE))
  /\ UNCHANGED << config, input, output, hookOverridden, fft >>

\* Lines 659-669: the loop test, the cast of the input and the request of
\* window i.
GenerateDataLoop ==
  /\ gd.pc = "loop"
  /\ IF LoopContinues(gd.i, gd.requests)
     THEN IF ~IsTemporalDataObject(input)
          THEN /\ Unwind("TypeMismatch")
               /\ log' = log
               /\ input' = input
          ELSE /\ input' = [input EXCEPT
                              !.requested = StepRequest(gd.requests, gd.i)]
               /\ gd' = [gd EXCEPT !.pc = AfterSetRequested]
               /\ log' = Append(log, Event("SetRequested", gd.i,
                                           input'.requested.frameStart, TRUE))
               /\ call' = call
     ELSE /\ gd' = [gd EXCEPT !.pc = "after"]
          /\ UNCHANGED << input, log, call >>
  /\ UNCHANGED << config, output, hookOverridden, fft >>

\* Line 672.
GenerateDataPull ==
  /\ gd.pc = "pull"
  /\ \E outcome \in PullOutcomes :
       /\ log' = Append(log, Event("Pull", gd.i, input.requested.frameStart,
                                   outcome = "ok"))
       /\ IF outcome = "ok"
          THEN /\ input' = UpdateOutputData(input)
               /\ gd' = [gd EXCEPT !.pc = "hook"]
               /\ call' = call
          ELSE /\ input' = input
               /\ Unwind(outcome)
  /\ UNCHANGED << config, output, hookOverridden, fft >>

\* Lines 675-678 and the ++i of line 659.
GenerateDataHook ==
  /\ gd.pc = "hook"
  /\ \E outcome \in IF hookOverridden THEN OverriddenHookOutcomes
                    ELSE BaseHookOutcomes :
       /\ log' = Append(log, Event("Hook", gd.i, gd.outputStartFrame,
                                   outcome = "ok"))
       /\ IF outcome = "ok"
          THEN /\ gd' = [gd EXCEPT
                           !.pc = "loop",
                           !.i = NextStep(gd.i),
                           !.outputStartFrame =
                             NextOutputStartFrame(gd.outputStartFrame,
                                                  m_UnitOutputNumberOfFrames)]
               /\ call' = call
          ELSE Unwind(outcome)
  /\ UNCHANGED << config, input, output, hookOverridden, fft >>

\* Line 682 and the return.
GenerateDataAfter ==
  /\ gd.pc = "after"
  /\ log' = Append(log, Event("After", 0, 0, TRUE))
  /\ gd' = IdleActivation
  /\ call' = [call EXCEPT !.result = IF @ = "running" THEN "ok" ELSE @]
  /\ UNCHANGED << config, input, output, hookOverridden, fft >>

(***************************************************************************)
(* VnlForwardFFTImageFilter and VnlInverseFFTImageFilter: the size check   *)
(* and GenerateData.  Positions of GenerateData: "check" (the loop over    *)
(* the dimensions), "transform" (vnlfft.transform), "done".                *)
(***************************************************************************)
RECURSIVE VnlForwardFFT_DivideOut(_, _)
\* for (; n % ifac == 0; ) n /= ifac;   for n >= 1
VnlForwardFFT_DivideOut(n, ifac) ==
  IF n % ifac = 0 THEN VnlForwardFFT_DivideOut(n \div ifac, ifac) ELSE n

\* ifac += l
VnlForwardFFT_NextFactor(ifac, l) == ifac + l

RECURSIVE VnlForwardFFT_Factorize(_, _, _)
\* for (int l = 1; l <= 3; l++), with ifac = 2 at l = 1
VnlForwardFFT_Factorize(n, ifac, l) ==
  IF l <= 3
  THEN VnlForwardFFT_Factorize(VnlForwardFFT_DivideOut(n, ifac),
                               VnlForwardFFT_NextFactor(ifac, l), l + 1)
  ELSE n

VnlForwardFFT_IsDimensionSizeLegal(n) ==
  VnlForwardFFT_Factorize(n, 2, 1) = 1

RECURSIVE VnlInverseFFT_DivideOut(_, _)
\* for (; n % ifac == 0; ) n /= ifac;   for n >= 1
VnlInverseFFT_DivideOut(n, ifac) ==
  IF n % ifac = 0 THEN VnlInverseFFT_DivideOut(n \div ifac, ifac) ELSE n

\* Trial factors 2, 3, 4 in place of 2, 3, 5.
VnlInverseFFT_NextFactorByOne(ifac, l) == ifac + 1

\* ifac += l
VnlInverseFFT_NextFactor(ifac, l) == ifac + l

RECURSIVE VnlInverseFFT_Factorize(_, _, _)
\* for (int l = 1; l <= 3; l++), with ifac = 2 at l = 1
VnlInverseFFT_Factorize(n, ifac, l) ==
  IF l <= 3
  THEN VnlInverseFFT_Factorize(VnlInverseFFT_DivideOut(n, ifac),
                               VnlInverseFFT_NextFactor(ifac, l), l + 1)
  ELSE n

VnlInverseFFT_IsDimensionSizeLegal(n) ==
  VnlInverseFFT_Factorize(n, 2, 1) = 1

\* this->IsDimensionSizeLegal(...) of the filter at hand.
IsDimensionSizeLegal(filter, n) ==
  IF filter = "VnlForwardFFTImageFilter"
  THEN VnlForwardFFT_IsDimensionSizeLegal(n)
  ELSE VnlInverseFFT_IsDimensionSizeLegal(n)

\* A check loop that leaves out the last dimension.
DimensionsCheckedButLast(size) == Len(size) - 1

\* for (unsigned int i = 0; i < ImageDimension; i++)
DimensionsChecked(size) == Len(size)

\* Entry of GenerateData up to the loop: both images are there, the output
\* buffer is allocated.
VnlFFT_GenerateDataBegin ==
  /\ fft.pc \in { "idle", "done" }
  /\ fft' = [fft EXCEPT !.pc = "check", !.i = 0, !.checked = << >>,
                        !.transformed = FALSE, !.result = "running"]
  /\ UNCHANGED << config, input, output, call, hookOverridden, gd, log >>

\* One pass of the loop over the dimensions, or its exit.
VnlFFT_CheckDimension ==
  /\ fft.pc = "check"
  /\ IF fft.i < DimensionsChecked(fft.size)
     THEN LET n     == fft.size[fft.i + 1]
              legal == IsDimensionSizeLegal(fft.filter, n)
          IN  fft' = IF legal
                     THEN [fft EXCEPT !.i = @ + 1, !.checked = << n, legal >>]
                     ELSE [fft EXCEPT !.pc = "done", !.checked = << n, legal >>,
                                      !.result = "SizeError"]
     ELSE fft' = [fft EXCEPT !.pc = "transform"]
  /\ UNCHANGED << config, input, output, call, hookOverridden, gd, log >>

\* vnlfft.transform(...) and the copy to the output; the return.
VnlFFT_Transform ==
  /\ fft.pc = "transform"
  /\ fft' = [fft EXCEPT !.pc = "done", !.transformed = TRUE, !.result = "ok"]
  /\ UNCHANGED << config, input, output, call, hookOverridden, gd, log >>

(***************************************************************************)
(* Initial states: a configured stage whose output carries a consumer's    *)
(* request, or whose input carries the upstream extent.                    *)
(***************************************************************************)
RequestedRegions ==
  { TemporalRegion(s, d) : s \in FrameStarts, d \in 0..MaxFrameDuration }

\* Buffers that cover a prefix of the request (or nothing).
BufferedRegions(requested) ==
  { EmptyRegion } \cup
  { TemporalRegion(requested.frameStart, b) : b \in 1..MaxBuffered }

LargestRegions ==
  { TemporalRegion(s, d) : s \in 0..MaxFrameStart, d \in 0..(MaxFrameDuration + 1) }

FreshDataObject == TemporalDataObject(EmptyRegion, EmptyRegion, EmptyRegion)

\* An input that still carries the request of an earlier update.
PreviouslyRequestedDataObject ==
  TemporalDataObject(EmptyRegion,
                     TemporalRegion(MaxFrameStart, MaxUnitInput), EmptyRegion)

InitRequest ==
  /\ \E r \in RequestedRegions : \E b \in BufferedRegions(r) :
       output = TemporalDataObject(EmptyRegion, r, b)
  /\ input \in { FreshDataObject, PreviouslyRequestedDataObject,
                  NonTemporalDataObject }

InitInformation ==
  /\ \E l \in LargestRegions :
       input = TemporalDataObject(l, EmptyRegion, EmptyRegion)
  /\ output \in { FreshDataObject, NonTemporalDataObject }

InitWindowing ==
  /\ m_UnitInputNumberOfFrames \in 1..MaxUnitInput
  /\ m_UnitOutputNumberOfFrames \in 1..MaxUnitOutput
  /\ m_FrameSkipPerOutput \in (-MaxFrameSkip)..MaxFrameSkip

InitConfiguration ==
  /\ InitWindowing
  /\ m_InputStencilCurrentFrameIndex \in 0..MaxStencil

InitNoCall ==
  /\ call = [op |-> "none", result |-> "none", input |-> input,
             output |-> output, ret |-> << >>]
  /\ gd = IdleActivation
  /\ log = << >>
  /\ fft = NoFilter

\* The region callbacks of a stage with an overriding subclass.
Init ==
  /\ InitConfiguration
  /\ (InitRequest \/ InitInformation)
  /\ hookOverridden = TRUE
  /\ InitNoCall

\* A stage of either kind whose output carries a request near the start of
\* the sequence.  GenerateData does not read the stencil index, which is
\* left as constructed.
InitStreaming ==
  /\ InitWindowing
  /\ m_InputStencilCurrentFrameIndex = 0
  /\ \E s \in 0..MaxFrameStart, d \in 0..MaxFrameDuration :
       \E b \in BufferedRegions(TemporalRegion(s, d)) :
         output \in { TemporalDataObject(EmptyRegion, TemporalRegion(s, d), b),
                      NonTemporalDataObject }
  /\ input \in { FreshDataObject, NonTemporalDataObject }
  /\ hookOverridden \in BOOLEAN
  /\ InitNoCall

Next ==
  \/ EnlargeOutputRequestedRegion
  \/ GenerateInputRequestedRegion
  \/ UpdateOutputInformation
  \/ SplitRequestedTemporalRegion

Spec == Init /\ [][Next]_vars

\* Invocations of GenerateData, one after another.
NextStreaming ==
  \/ GenerateDataBegin
  \/ GenerateDataSplit
  \/ GenerateDataLoop
  \/ GenerateDataPull
  \/ GenerateDataHook
  \/ GenerateDataAfter

SpecStreaming == InitStreaming /\ [][NextStreaming]_vars

\* Image sizes of 1 to MaxImageDimension dimensions.
ImageSizes ==
  UNION { [1..d -> 1..MaxDimensionSize] : d \in 1..MaxImageDimension }

\* A forward or an inverse filter whose image has been set; the temporal
\* stage is as constructed and is not run.
InitFFT ==
  /\ m_UnitInputNumberOfFrames = 1
  /\ m_UnitOutputNumberOfFrames = 1
  /\ m_FrameSkipPerOutput = 1
  /\ m_InputStencilCurrentFrameIndex = 0
  /\ input = FreshDataObject
  /\ output = FreshDataObject
  /\ hookOverridden = FALSE
  /\ call = [op |-> "none", result |-> "none", input |-> input,
             output |-> output, ret |-> << >>]
  /\ gd = IdleActivation
  /\ log = << >>
  /\ \E filter \in { "VnlForwardFFTImageFilter", "VnlInverseFFTImageFilter" } :
       \E size \in ImageSizes :
         fft = [NoFilter EXCEPT !.filter = filter, !.size = size]

NextFFT ==
  \/ VnlFFT_GenerateDataBegin
  \/ VnlFFT_CheckDimension
  \/ VnlFFT_Transform

SpecFFT == InitFFT /\ [][NextFFT]_vars

(***************************************************************************)
(* IsDimensionSizeLegal(n) statement by statement, for every size word     *)
(* n >= 0 (InputSizeValueType is unsigned).  Positions: "outer" (the test  *)
(* of the loop over l), "inner" (the test of the division loop), "return". *)
(***************************************************************************)
SizeArguments == 0..MaxDimensionSize

\* The activation after  int ifac = 2;  and  int l = 1.
IsDimensionSizeLegalCall(filter, n) ==
  [filter |-> filter, arg |-> n, n |-> n, ifac |-> 2, l |-> 1,
   pc |-> "outer", result |-> "none"]

\* ifac += l  of the filter at hand.
NextFactor(filter, ifac, l) ==
  IF filter = "VnlForwardFFTImageFilter"
  THEN VnlForwardFFT_NextFactor(ifac, l)
  ELSE VnlInverseFFT_NextFactor(ifac, l)

\* for (int l = 1; l <= 3; l++): the test.
IsDimensionSizeLegal_OuterLoop ==
  /\ fft.pc = "outer"
  /\ fft' = IF fft.l <= 3
            THEN [fft EXCEPT !.pc = "inner"]
            ELSE [fft EXCEPT !.pc = "return"]
  /\ UNCHANGED << config, input, output, call, hookOverridden, gd, log >>

\* for (; n % ifac == 0; ) n /= ifac;  one test and, when it holds, one
\* division; otherwise  ifac += l  and  l++.
IsDimensionSizeLegal_InnerLoop ==
  /\ fft.pc = "inner"
  /\ fft' = IF fft.n % fft.ifac = 0
            THEN [fft EXCEPT !.n = fft.n \div fft.ifac]
            ELSE [fft EXCEPT !.ifac = NextFactor(fft.filter, fft.ifac, fft.l),
                             !.l = @ + 1, !.pc = "outer"]
  /\ UNCHANGED << config, input, output, call, hookOverridden, gd, log >>

\* return (n == 1);
IsDimensionSizeLegal_Return ==
  /\ fft.pc = "return"
  /\ fft' = [fft EXCEPT !.pc = "returned", !.result = (fft.n = 1)]
  /\ UNCHANGED << config, input, output, call, hookOverridden, gd, log >>

\* A call of IsDimensionSizeLegal of a forward or an inverse filter; the
\* temporal stage is as constructed and is not run.
InitSizeCheck ==
  /\ m_UnitInputNumberOfFrames = 1
  /\ m_UnitOutputNumberOfFrames = 1
  /\ m_FrameSkipPerOutput = 1
  /\ m_InputStencilCurrentFrameIndex = 0
  /\ input = FreshDataObject
  /\ output = FreshDataObject
  /\ hookOverridden = FALSE
  /\ call = [op |-> "none", result |-> "none", input |-> input,
             output |-> output, ret |-> << >>]
  /\ gd = IdleActivation
  /\ log = << >>
  /\ \E filter \in { "VnlForwardFFTImageFilter", "VnlInverseFFTImageFilter" } :
       \E n \in SizeArguments :
         fft = IsDimensionSizeLegalCall(filter, n)

NextSizeCheck ==
  \/ IsDimensionSizeLegal_OuterLoop
  \/ IsDimensionSizeLegal_InnerLoop
  \/ IsDimensionSizeLegal_Return

SpecSizeCheck == InitSizeCheck /\ [][NextSizeCheck]_vars

(***************************************************************************)
(* One Update() of the pipeline around the stage: the stage is configured, *)
(* the information pass calls UpdateOutputInformation, the consumer sets   *)
(* its request on the output, the request pass calls                       *)
(* EnlargeOutputRequestedRegion and GenerateInputRequestedRegion, and the  *)
(* data pass calls GenerateData.  An error ends the Update().              *)
(***************************************************************************)
\* A constructor that leaves a zero stride.
ConstructedConfigurationZeroSkip == << 1, 1, 0, 0 >>

\* The member initialisers of the constructor.
ConstructedConfiguration == << 1, 1, 1, 0 >>

\* No Update() is under way.
Idle ==
  /\ gd = IdleActivation
  /\ \/ call.op \in { "none", "Configure", "GenerateData" }
     \/ call.result # "ok"

\* The subclass or user configures the stage before the pipeline runs.
Configure ==
  /\ call.op = "none"
  /\ gd = IdleActivation
  /\ m_UnitInputNumberOfFrames' \in 1..MaxUnitInput
  /\ m_UnitOutputNumberOfFrames' \in 1..MaxUnitOutput
  /\ m_FrameSkipPerOutput' \in (-MaxFrameSkip)..MaxFrameSkip
  /\ m_InputStencilCurrentFrameIndex' \in 0..MaxStencil
  /\ call' = Record("Configure", "ok", << >>)
  /\ UNCHANGED << input, output, hookOverridden, gd, log, fft >>

\* The requests a consumer may make of an output whose extent is known.
ConsumerRequests(largest) ==
  { r \in { TemporalRegion(s, d) :
              s \in largest.frameStart..(largest.frameStart + MaxFrameDuration),
              d \in 1..MaxFrameDuration } : IsInside(r, largest) }
  \cup { TemporalRegion(largest.frameStart, 0) }

\* Information pass of the Update() that follows the configuration.
UpdateInformationPass ==
  /\ Idle
  /\ call.op \in { "none", "Configure" }
  /\ UpdateOutputInformation

\* The consumer's request, made once the extent is known.
SetRequestedTemporalRegion ==
  /\ gd = IdleActivation
  /\ call.op = "UpdateOutputInformation"
  /\ call.result = "ok"
  /\ \E r \in ConsumerRequests(output.largest) :
       output' = [output EXCEPT !.requested = r]
  /\ call' = Record("SetRequestedTemporalRegion", "ok", << >>)
  /\ UNCHANGED << config, input, hookOverridden, gd, log, fft >>

\* Request pass, first half.
EnlargePass ==
  /\ call.op = "SetRequestedTemporalRegion"
  /\ EnlargeOutputRequestedRegion

\* Request pass, second half.
GenerateInputPass ==
  /\ call.op = "EnlargeOutputRequestedRegion"
  /\ call.result = "ok"
  /\ GenerateInputRequestedRegion

\* Data pass.
GenerateDataPass ==
  /\ call.op = "GenerateInputRequestedRegion"
  /\ call.result = "ok"
  /\ GenerateDataBegin

\* Extents of the upstream sequence.
UpstreamExtents ==
  { TemporalRegion(s, d) : s \in 0..1, d \in 0..(MaxFrameDuration + 1) }

\* A constructed stage between an upstream of known extent and a fresh
\* output.
InitUpdate ==
  /\ m_UnitInputNumberOfFrames = ConstructedConfiguration[1]
  /\ m_UnitOutputNumberOfFrames = ConstructedConfiguration[2]
  /\ m_FrameSkipPerOutput = ConstructedConfiguration[3]
  /\ m_InputStencilCurrentFrameIndex = ConstructedConfiguration[4]
  /\ \E l \in UpstreamExtents :
       input = TemporalDataObject(l, EmptyRegion, EmptyRegion)
  /\ output = FreshDataObject
  /\ hookOverridden = TRUE
  /\ InitNoCall

NextUpdate ==
  \/ Configure
  \/ UpdateInformationPass
  \/ SetRequestedTemporalRegion
  \/ EnlargePass
  \/ GenerateInputPass
  \/ GenerateDataPass
  \/ GenerateDataSplit
  \/ GenerateDataLoop
  \/ GenerateDataPull
  \/ GenerateDataHook
  \/ GenerateDataAfter

SpecUpdate == InitUpdate /\ [][NextUpdate]_vars

(***************************************************************************)
(* Properties.  `call' holds the data objects as they were before the last *)
(* callback; input and output are the objects after it.                    *)
(***************************************************************************)
OutReq == call.output.requested

Unbuffered == GetUnbufferedRequestedTemporalRegion(call.output)

GenerateInputReached ==
  call.op = "GenerateInputRequestedRegion" /\ call.output.temporal

EnlargeDone ==
  call.op = "EnlargeOutputRequestedRegion" /\ call.result = "ok"

SplitDone ==
  call.op = "SplitRequestedTemporalRegion" /\ call.result = "ok"

UpdateInformationDone ==
  call.op = "UpdateOutputInformation" /\ call.result = "ok"

\* C1: whenever the computed start s - stencil is >= 0,
\* GenerateInputRequestedTemporalRegion sets the input's requested region to
\* start = s - stencil and duration =
\* frameSkip * (ceil(d / unitOutput) - 1) + unitInput.
InputRequestedRegionAsSpecified ==
  ( /\ GenerateInputReached
    /\ call.input.temporal
    /\ OutReq.frameStart - m_InputStencilCurrentFrameIndex >= 0 )
  => /\ call.result = "ok"
     /\ input.requested.frameStart =
          OutReq.frameStart - m_InputStencilCurrentFrameIndex
     /\ DurationIs(input.requested.frameDuration,
                   m_FrameSkipPerOutput *
                     (CeilDiv(OutReq.frameDuration, m_UnitOutputNumberOfFrames) - 1)
                   + m_UnitInputNumberOfFrames)

\* C2: whenever outputRequestedStart - stencil < 0,
\* GenerateInputRequestedTemporalRegion fails with InvalidRegion and the
\* input (its requested region included) is exactly as it was before the
\* call: the start is neither clamped nor wrapped.
NegativeStartRejected ==
  ( /\ GenerateInputReached
    /\ OutReq.frameStart - m_InputStencilCurrentFrameIndex < 0 )
  => /\ call.result = "InvalidRegion"
     /\ input = call.input

\* The scenario stencil = 1, output request [0, 1), with an input that
\* carried an earlier request.
NegativeStartRejectedWitness ==
  /\ GenerateInputReached
  /\ m_InputStencilCurrentFrameIndex = 1
  /\ OutReq = TemporalRegion(0, 1)
  /\ call.input = PreviouslyRequestedDataObject
  /\ call.result = "InvalidRegion"

\* C3: after EnlargeOutputRequestedRegion the output's requested duration
\* is a multiple of unitOutput and is at least the duration requested
\* before.
EnlargedIsCoveringMultiple ==
  EnlargeDone
  => /\ output.requested.frameDuration % m_UnitOutputNumberOfFrames = 0
     /\ output.requested.frameDuration >= OutReq.frameDuration

\* A request of 3 frames with a unit of 2 has been enlarged.
EnlargedIsCoveringMultipleWitness ==
  /\ EnlargeDone
  /\ m_UnitOutputNumberOfFrames = 2
  /\ OutReq.frameDuration = 3
  /\ output.requested.frameDuration = 4

\* C4: EnlargeOutputRequestedRegion rounds up to the next multiple only:
\* the growth is less than unitOutput, a duration that already is a
\* multiple (0 included) is unchanged, enlarging the result again changes
\* nothing, and frameStart is never changed.
EnlargeRoundsToNextMultipleOnly ==
  EnlargeDone
  => /\ output.requested.frameDuration - OutReq.frameDuration
          < m_UnitOutputNumberOfFrames
     /\ (OutReq.frameDuration % m_UnitOutputNumberOfFrames = 0
           => output.requested.frameDuration = OutReq.frameDuration)
     /\ EnlargeOutputRequestedTemporalRegion(output) = output
     /\ output.requested.frameStart = OutReq.frameStart
     /\ output.largest = call.output.largest
     /\ output.buffered = call.output.buffered

\* A duration that is a non-zero multiple of a unit > 1 went through the
\* operation unchanged, at a non-zero start.
EnlargeRoundsToNextMultipleOnlyWitness ==
  /\ EnlargeDone
  /\ m_UnitOutputNumberOfFrames = 2
  /\ OutReq = TemporalRegion(5, 4)
  /\ output.requested = TemporalRegion(5, 4)

\* C5: SplitRequestedTemporalRegion returns exactly
\* ceil(u / unitOutput) windows for an unbuffered duration u (none for
\* u = 0), each of duration unitInput.
SplitCountAndWindowDuration ==
  SplitDone
  => LET n == Len(call.ret)
         u == Unbuffered.frameDuration
     IN  /\ n * m_UnitOutputNumberOfFrames >= u
         /\ (n - 1) * m_UnitOutputNumberOfFrames < u \/ (n = 0 /\ u = 0)
         /\ \A i \in 1..n :
              call.ret[i].frameDuration = m_UnitInputNumberOfFrames

\* The scenario unbuffered [10, 4) with unitOutput = 2: two windows.
SplitCountAndWindowDurationWitness ==
  /\ SplitDone
  /\ Unbuffered = TemporalRegion(10, 4)
  /\ m_UnitOutputNumberOfFrames = 2
  /\ m_UnitInputNumberOfFrames = 3
  /\ Len(call.ret) = 2

\* C6: forward traversal (frameSkip = k > 0): the i-th returned window
\* (i counted from 0, in the order returned) starts at unbufferedStart + i*k.
ForwardWindowStarts ==
  (SplitDone /\ m_FrameSkipPerOutput > 0)
  => \A i \in 1..Len(call.ret) :
       call.ret[i].frameStart =
         Unbuffered.frameStart + (i - 1) * m_FrameSkipPerOutput

\* Three windows with stride 2 over a partly buffered request.
ForwardWindowStartsWitness ==
  /\ SplitDone
  /\ m_FrameSkipPerOutput = 2
  /\ call.output.buffered.frameDuration > 0
  /\ Len(call.ret) = 3
  /\ call.ret[3].frameStart = Unbuffered.frameStart + 4

\* C7 as stated: reverse traversal (frameSkip = k < 0): the i-th window
\* starts at unbufferedStart + unbufferedDuration - unitInput + i*k, for
\* all unitInput and unitOutput.
ReverseWindowStartsByUnitInput ==
  (SplitDone /\ m_FrameSkipPerOutput < 0)
  => \A i \in 1..Len(call.ret) :
       call.ret[i].frameStart =
         Unbuffered.frameStart + Unbuffered.frameDuration
           - m_UnitInputNumberOfFrames + (i - 1) * m_FrameSkipPerOutput

\* C7 amended: reverse traversal (frameSkip = k < 0): the i-th window
\* starts at unbufferedStart + unbufferedDuration - unitOutput + i*k; this
\* is the start stated in the claim exactly when unitInput = unitOutput.
ReverseWindowStartsByUnitOutput ==
  (SplitDone /\ m_FrameSkipPerOutput < 0)
  => \A i \in 1..Len(call.ret) :
       /\ call.ret[i].frameStart =
            Unbuffered.frameStart + Unbuffered.frameDuration
              - m_UnitOutputNumberOfFrames + (i - 1) * m_FrameSkipPerOutput
       /\ (call.ret[i].frameStart =
             Unbuffered.frameStart + Unbuffered.frameDuration
               - m_UnitInputNumberOfFrames + (i - 1) * m_FrameSkipPerOutput)
          <=> (m_UnitInputNumberOfFrames = m_UnitOutputNumberOfFrames)

\* A reverse split into two windows with unitInput # unitOutput.
ReverseWindowStartsByUnitOutputWitness ==
  /\ SplitDone
  /\ m_FrameSkipPerOutput = -1
  /\ m_UnitInputNumberOfFrames = 3
  /\ m_UnitOutputNumberOfFrames = 2
  /\ Unbuffered = TemporalRegion(5, 4)
  /\ call.ret = << TemporalRegion(7, 3), TemporalRegion(6, 3) >>

\* C8: reverse traversal (frameSkip < 0): the first window starts at
\* unbufferedStart + unbufferedDuration - unitOutput, each later window
\* starts frameSkip after the previous one, and the starts are strictly
\* decreasing.
ReverseWalksBackward ==
  (SplitDone /\ m_FrameSkipPerOutput < 0 /\ Len(call.ret) >= 1)
  => /\ call.ret[1].frameStart =
          Unbuffered.frameStart + Unbuffered.frameDuration
            - m_UnitOutputNumberOfFrames
     /\ \A i \in 2..Len(call.ret) :
          /\ call.ret[i].frameStart =
               call.ret[i - 1].frameStart + m_FrameSkipPerOutput
          /\ call.ret[i].frameStart < call.ret[i - 1].frameStart

\* Four windows walking backward by 2 from the end of [1, 4).
ReverseWalksBackwardWitness ==
  /\ SplitDone
  /\ m_FrameSkipPerOutput = -2
  /\ m_UnitOutputNumberOfFrames = 1
  /\ Unbuffered = TemporalRegion(1, 4)
  /\ Len(call.ret) = 4
  /\ call.ret[1].frameStart = 4
  /\ call.ret[4].frameStart = -2

\* C9: for frameSkip >= 1 and input largest duration L >= unitInput,
\* UpdateOutputInformation sets the output's largest-possible duration to
\* unitOutput * floor((scannableDuration - 1) / frameSkip + 1), with
\* scannableDuration = L - unitInput + 1.
OutputLargestDurationFloored ==
  ( /\ UpdateInformationDone
    /\ m_FrameSkipPerOutput >= 1
    /\ call.input.largest.frameDuration >= m_UnitInputNumberOfFrames )
  => LET scannableDuration ==
           call.input.largest.frameDuration - m_UnitInputNumberOfFrames + 1
     IN  DurationIs(output.largest.frameDuration,
                    m_UnitOutputNumberOfFrames *
                      ((scannableDuration - 1) \div m_FrameSkipPerOutput + 1))

\* C10: UpdateOutputInformation sets the output's largest-possible
\* frameStart to inputLargestStart + stencil, whatever the configuration
\* and the input's largest-possible region.
OutputLargestStartAligned ==
  UpdateInformationDone
  => output.largest.frameStart =
       call.input.largest.frameStart + m_InputStencilCurrentFrameIndex

\* An input extent starting at frame 2 seen through a stencil offset of 1.
OutputLargestStartAlignedWitness ==
  /\ UpdateInformationDone
  /\ m_InputStencilCurrentFrameIndex = 1
  /\ call.input.largest = TemporalRegion(2, 4)
  /\ output.largest.frameStart = 3

(***************************************************************************)
(* Properties of GenerateData, over the calls it has logged.               *)
(***************************************************************************)
GenerateDataCalled == call.op = "GenerateData"

GenerateDataEnded == GenerateDataCalled /\ gd = IdleActivation

GenerateDataSucceeded == GenerateDataEnded /\ call.result = "ok"

\* Positions of the logged calls of one kind.
Calls(ev) == { p \in 1..Len(log) : log[p].ev = ev }

ReturnedCalls(ev) == { p \in Calls(ev) : log[p].ok }

\* C11: GenerateData processes the partitions returned by
\* SplitRequestedTemporalRegion strictly in order; within step i the input's
\* requested region is set to partition i, then the input is pulled, then
\* the per-step hook is called, with nothing of step i+1 in between, and the
\* hook of step i is not called before the pull of partition i has returned.
StepsInOrder ==
  GenerateDataCalled
  => /\ \A p \in Calls("SetRequested") :
          /\ p > 1
          /\ log[p].step + 1 \in 1..Len(call.ret)
          /\ log[p].frame = call.ret[log[p].step + 1].frameStart
          /\ IF log[p].step = 0
             THEN log[p - 1].ev = "Split"
             ELSE /\ log[p - 1].ev = "Hook"
                  /\ log[p - 1].ok
                  /\ log[p - 1].step = log[p].step - 1
     /\ \A p \in Calls("Pull") :
          /\ p > 1
          /\ log[p - 1].ev = "SetRequested"
          /\ log[p - 1].step = log[p].step
          /\ log[p].frame = log[p - 1].frame
     /\ \A p \in Calls("Hook") :
          /\ p > 1
          /\ log[p - 1].ev = "Pull"
          /\ log[p - 1].ok
          /\ log[p - 1].step = log[p].step
     /\ gd.pc \in { "pull", "hook" }
          => input.requested = gd.requests[gd.i + 1]
     /\ gd.pc = "hook"
          => /\ log[Len(log)] = Event("Pull", gd.i, input.requested.frameStart, TRUE)
             /\ input.buffered = input.requested

\* The hook of the third window of a reverse traversal has returned.
StepsInOrderWitness ==
  /\ GenerateDataCalled
  /\ m_FrameSkipPerOutput = -1
  /\ Len(log) = 11
  /\ log[11] = Event("Hook", 2, call.output.requested.frameStart + 2, TRUE)
  /\ log[9].ev = "SetRequested"
  /\ log[10].ev = "Pull"

\* C12: the per-step hook of step i is called with outputFrameStart =
\* unbufferedRequestedStart + i * unitOutput, in forward and in reverse
\* traversal, and in a successful run it is called exactly numRequests
\* times (once for each i in 0..numRequests-1).
HookOutputFrameStarts ==
  GenerateDataCalled
  => /\ \A p \in Calls("Hook") :
          log[p].frame =
            Unbuffered.frameStart + log[p].step * m_UnitOutputNumberOfFrames
     /\ GenerateDataSucceeded
          => LET numRequests == CeilDiv(Unbuffered.frameDuration,
                                        m_UnitOutputNumberOfFrames)
             IN  /\ Cardinality(Calls("Hook")) = numRequests
                 /\ { log[p].step : p \in Calls("Hook") } = 0..(numRequests - 1)

\* A successful reverse run of two steps of two frames each over a partly
\* buffered request.
HookOutputFrameStartsWitness ==
  /\ GenerateDataSucceeded
  /\ m_FrameSkipPerOutput < 0
  /\ m_UnitOutputNumberOfFrames = 2
  /\ call.output.requested = TemporalRegion(1, 4)
  /\ call.output.buffered = TemporalRegion(1, 1)
  /\ { log[p].frame : p \in Calls("Hook") } = { 2, 4 }

\* C13: in every successful GenerateData, BeforeTemporalStreamingGenerateData
\* is called exactly once, before the split, before any request to the
\* input, any pull and any per-step hook call, and
\* AfterTemporalStreamingGenerateData is called exactly once, after the last
\* per-step hook call; neither is called per window.
BeforeAndAfterOnce ==
  GenerateDataCalled
  => /\ Calls("Before") = { 1 }
     /\ Calls("Split") \subseteq { 2 }
     /\ Calls("After") \subseteq { Len(log) }
     /\ gd.pc \in { "loop", "pull", "hook", "after" } => Calls("After") = { }
     /\ GenerateDataSucceeded
          => /\ Calls("After") = { Len(log) }
             /\ Calls("Split") = { 2 }
             /\ Calls("Hook") # { } => log[Len(log) - 1].ev = "Hook"

\* A successful run over three windows.
BeforeAndAfterOnceWitness ==
  /\ GenerateDataSucceeded
  /\ Cardinality(Calls("Hook")) = 3
  /\ Len(log) = 12

\* C14: GenerateInputRequestedRegion fails with TypeMismatch whenever the
\* input or the output is not a temporal data object (also for a
\* non-temporal input with a temporal output), and then no region is
\* modified.
GenerateInputRejectsNonTemporal ==
  ( /\ call.op = "GenerateInputRequestedRegion"
    /\ (~call.input.temporal \/ ~call.output.temporal) )
  => /\ call.result = "TypeMismatch"
     /\ input = call.input
     /\ output = call.output

\* C15: EnlargeOutputRequestedRegion on an output that is not a temporal
\* data object fails with TypeMismatch and changes no region of any data
\* object; on a temporal output it never raises TypeMismatch.
EnlargeRejectsNonTemporal ==
  call.op = "EnlargeOutputRequestedRegion"
  => /\ ~call.output.temporal
          => /\ call.result = "TypeMismatch"
             /\ input = call.input
             /\ output = call.output
     /\ call.output.temporal => call.result = "ok"

\* The callback was refused on a non-temporal output whose stage has an
\* input with a known extent.
EnlargeRejectsNonTemporalWitness ==
  /\ call.op = "EnlargeOutputRequestedRegion"
  /\ call.output = NonTemporalDataObject
  /\ call.result = "TypeMismatch"
  /\ input.largest = TemporalRegion(1, 3)

\* C16: the base TemporalStreamingGenerateData always raises.  On a stage
\* that does not override it, with temporal input and output and a pull
\* that returns, GenerateData aborts in the first step when there is at
\* least one window (one pull made, no later partition requested, After not
\* called); with no window GenerateData completes without the error.
BaseHookAbortsFirstStep ==
  (GenerateDataCalled /\ ~hookOverridden)
  => /\ ReturnedCalls("Hook") = { }
     /\ ( /\ GenerateDataEnded
          /\ call.output.temporal
          /\ Len(call.ret) = 0 )
        => /\ call.result = "ok"
           /\ Calls("Hook") = { }
           /\ Calls("After") = { Len(log) }
     /\ ( /\ GenerateDataEnded
          /\ call.output.temporal
          /\ call.input.temporal
          /\ Len(call.ret) >= 1
          /\ Calls("Pull") = ReturnedCalls("Pull") )
        => /\ call.result = "Unimplemented"
           /\ Cardinality(Calls("Pull")) = 1
           /\ Cardinality(Calls("SetRequested")) = 1
           /\ Cardinality(Calls("Hook")) = 1
           /\ log[Len(log)].step = 0
           /\ Calls("After") = { }
           /\ input.requested = call.ret[1]

\* A stage without an override was asked for three windows and stopped in
\* the first.
BaseHookAbortsFirstStepWitness ==
  /\ GenerateDataEnded
  /\ ~hookOverridden
  /\ Len(call.ret) = 3
  /\ call.result = "Unimplemented"
  /\ Len(log) = 5

\* C17: GenerateInputRequestedTemporalRegion is idempotent: a second call
\* right after a successful one (output request unchanged) leaves the
\* input's requested region as the first call left it, whatever the input
\* carried before the first call.
GenerateInputIdempotent ==
  [][ ( /\ call.op = "GenerateInputRequestedRegion"
        /\ call.result = "ok"
        /\ call.input.temporal
        /\ call'.op = "GenerateInputRequestedRegion" )
      => /\ call'.result = "ok"
         /\ input'.requested = input.requested ]_vars

\* The second of two calls for the scenario request [5, 1): it found the
\* region [4, 3) of the first call and left it.
GenerateInputIdempotentWitness ==
  /\ call.op = "GenerateInputRequestedRegion"
  /\ call.result = "ok"
  /\ OutReq = TemporalRegion(5, 1)
  /\ call.input.requested = TemporalRegion(4, 3)
  /\ input.requested = TemporalRegion(4, 3)

\* Statements left to execute in a running GenerateData.
RemainingWork ==
  LET numRequests ==
        IF gd.pc = "split"
        THEN IF output.temporal
             THEN CeilDiv(GetUnbufferedRequestedTemporalRegion(output).frameDuration,
                          m_UnitOutputNumberOfFrames)
             ELSE 0
        ELSE Len(gd.requests)
      left == 3 * (numRequests - gd.i)
  IN  CASE gd.pc = "split" -> left + 4
        [] gd.pc = "loop"  -> left + 3
        [] gd.pc = "pull"  -> left + 2
        [] gd.pc = "hook"  -> left + 1
        [] gd.pc = "after" -> 1
        [] OTHER           -> 0

\* C18: once begun, GenerateData ends (by completing or by raising an
\* error) whenever the pulls and hook calls return: it never waits for
\* anything else, every statement executed strictly decreases the work that
\* remains, and it makes at most ceil(unbufferedDuration / unitOutput)
\* steps, for frameSkip = 0 and frameSkip < 0 as well.
GenerateDataTerminates ==
  /\ [](gd.pc # "idle"
          => /\ ENABLED (GenerateDataSplit \/ GenerateDataLoop \/ GenerateDataPull
                           \/ GenerateDataHook \/ GenerateDataAfter)
             /\ RemainingWork > 0)
  /\ [](GenerateDataCalled /\ call.output.temporal /\ log # << >>
          => /\ gd.i <= CeilDiv(Unbuffered.frameDuration, m_UnitOutputNumberOfFrames)
             /\ Cardinality(Calls("Hook"))
                  <= CeilDiv(Unbuffered.frameDuration, m_UnitOutputNumberOfFrames))
  /\ [][gd.pc # "idle" => RemainingWork' < RemainingWork]_vars

\* A run with frameSkip = 0 over four windows has returned.
GenerateDataTerminatesWitness ==
  /\ GenerateDataSucceeded
  /\ m_FrameSkipPerOutput = 0
  /\ Cardinality(Calls("Hook")) = 4

\* C19: a pull or a hook call that fails in step j ends GenerateData at
\* once: no later step is started, After is not called, the hook calls of
\* steps 0..j-1 stay made (nothing is rolled back), and the input's
\* requested region stays at partition j.
StepFailurePropagates ==
  ( /\ GenerateDataCalled
    /\ call.result \in { "UpstreamError", "HookError", "Unimplemented" } )
  => LET last == log[Len(log)]
         j    == last.step
     IN  /\ gd = IdleActivation
         /\ last.ev = (IF call.result = "UpstreamError" THEN "Pull" ELSE "Hook")
         /\ ~last.ok
         /\ Calls("After") = { }
         /\ { log[p].step : p \in Calls("SetRequested") } = 0..j
         /\ { log[p].step : p \in Calls("Pull") } = 0..j
         /\ { log[p].step : p \in ReturnedCalls("Hook") } = 0..(j - 1)
         /\ \A p \in ReturnedCalls("Hook") :
              log[p].frame =
                Unbuffered.frameStart + log[p].step * m_UnitOutputNumberOfFrames
         /\ input.requested = call.ret[j + 1]

\* The pull of the third of four windows failed after two units were
\* written.
StepFailurePropagatesWitness ==
  /\ GenerateDataCalled
  /\ call.result = "UpstreamError"
  /\ Len(call.ret) = 4
  /\ log[Len(log)] = Event("Pull", 2, call.ret[3].frameStart, FALSE)
  /\ Cardinality(ReturnedCalls("Hook")) = 2

\* C20: whenever GenerateData issues an upstream pull, the input's
\* requested duration is unitInput, whatever the total requested output
\* duration; no pull is made for the whole input span of the request.
PullsAreUnitSized ==
  /\ gd.pc = "pull" => input.requested.frameDuration = m_UnitInputNumberOfFrames
  /\ GenerateDataCalled
       => \A p \in Calls("Pull") :
            /\ log[p].step + 1 \in 1..Len(call.ret)
            /\ call.ret[log[p].step + 1] =
                 TemporalRegion(log[p].frame, m_UnitInputNumberOfFrames)

\* The last of four pulls for a request of four frames is about to be
\* issued: one frame is requested, not the span of seven.
PullsAreUnitSizedWitness ==
  /\ gd.pc = "pull"
  /\ gd.i = 3
  /\ call.output.requested.frameDuration = 4
  /\ m_FrameSkipPerOutput = 2
  /\ m_UnitInputNumberOfFrames = 1
  /\ input.requested.frameDuration = 1

\* Products of powers of 2, 3 and 5, up to 360; every such product below 10
\* is among them.
ProductsOfPowers ==
  { (2 ^ a) * (3 ^ b) * (5 ^ c) : a \in 0..3, b \in 0..2, c \in 0..1 }

\* C26: for every size n >= 1, IsDimensionSizeLegal(n) of the forward and of
\* the inverse filter is true exactly when n = 2^a * 3^b * 5^c, and the two
\* filters agree on n.
LegalSizesAreProductsOfPowers ==
  /\ fft.checked # << >>
       => fft.checked[2] = (fft.checked[1] \in ProductsOfPowers)
  /\ \A k \in 1..Len(fft.size) :
       LET n == fft.size[k]
       IN  /\ VnlForwardFFT_IsDimensionSizeLegal(n) = (n \in ProductsOfPowers)
           /\ VnlInverseFFT_IsDimensionSizeLegal(n) = (n \in ProductsOfPowers)
           /\ VnlForwardFFT_IsDimensionSizeLegal(n)
                = VnlInverseFFT_IsDimensionSizeLegal(n)

\* The inverse filter has accepted 5 after 6 and is at the last dimension.
LegalSizesAreProductsOfPowersWitness ==
  /\ fft.filter = "VnlInverseFFTImageFilter"
  /\ fft.size = << 6, 5, 7 >>
  /\ fft.checked = << 5, TRUE >>
  /\ fft.i = 2

IsPrefixOf(size, full) ==
  /\ Len(size) <= Len(full)
  /\ \A k \in 1..Len(size) : size[k] = full[k]

\* C27: GenerateData of either filter raises, without calling the
\* transform, if and only if some dimension has a size that is not legal;
\* sizes taken from (4,4,4,4) and (3,5,4) are transformed, sizes taken from
\* (7,6,4) are rejected in 1, 2 and 3 dimensions.
IllegalSizeRejected ==
  fft.pc = "done"
  => /\ fft.result \in { "ok", "SizeError" }
     /\ fft.result = "SizeError"
          <=> \E k \in 1..Len(fft.size) : fft.size[k] \notin ProductsOfPowers
     /\ fft.transformed <=> fft.result = "ok"
     /\ ( IsPrefixOf(fft.size, << 4, 4, 4, 4 >>)
          \/ IsPrefixOf(fft.size, << 3, 5, 4 >>) ) => fft.result = "ok"
     /\ IsPrefixOf(fft.size, << 7, 6, 4 >>) => fft.result = "SizeError"

\* The forward filter has refused the two-dimensional image of size (4, 7).
IllegalSizeRejectedWitness ==
  /\ fft.pc = "done"
  /\ fft.filter = "VnlForwardFFTImageFilter"
  /\ fft.size = << 4, 7 >>
  /\ fft.result = "SizeError"
  /\ ~fft.transformed

\* C28: whenever the input or the output of the stage is not a temporal data
\* object, GenerateData raises TypeMismatch, for every unbuffered duration
\* including 0, and neither a pull, nor the per-step hook, nor After is
\* executed.
GenerateDataSurfacesTypeMismatch ==
  ( /\ GenerateDataEnded
    /\ (~call.input.temporal \/ ~call.output.temporal) )
  => /\ call.result = "TypeMismatch"
     /\ Calls("Pull") = { }
     /\ Calls("Hook") = { }
     /\ Calls("After") = { }

\* requested is inside largest-possible, for the input and the output as
\* they were before the last callback.
RegionsConsistentBefore ==
  /\ IsInside(call.input.requested, call.input.largest)
  /\ IsInside(call.output.requested, call.output.largest)

\* C21: requested inside largest-possible is preserved by the protocol:
\* from a state where it holds for the input and the output (largest
\* regions as set by UpdateOutputInformation), it holds for the output after
\* EnlargeOutputRequestedRegion, and for the input after
\* GenerateInputRequestedTemporalRegion and after every per-step request of
\* GenerateData, unless the operation raises an error.
RequestedStaysInsideLargest ==
  /\ (EnlargeDone /\ RegionsConsistentBefore)
       => IsInside(output.requested, output.largest)
  /\ ( /\ call.op = "GenerateInputRequestedRegion"
       /\ call.result = "ok"
       /\ RegionsConsistentBefore )
       => IsInside(input.requested, input.largest)
  /\ (GenerateDataCalled /\ RegionsConsistentBefore)
       => \A p \in Calls("SetRequested") :
            IsInside(call.ret[log[p].step + 1], input.largest)

Streaming == gd.pc # "idle"

\* Phases 1-3 have completed for the regions at hand: the output request is
\* a whole number of units, the input request is the one computed from it,
\* and the output extent is aligned with the input extent.
InformationPropagated ==
  /\ call.op = "GenerateInputRequestedRegion"
  /\ call.result = "ok"
  /\ output.requested.frameDuration % m_UnitOutputNumberOfFrames = 0
  /\ input.requested.frameStart =
       output.requested.frameStart - m_InputStencilCurrentFrameIndex
  /\ input.requested.frameDuration =
       m_FrameSkipPerOutput *
         (CeilDiv(output.requested.frameDuration, m_UnitOutputNumberOfFrames) - 1)
       + m_UnitInputNumberOfFrames
  /\ output.largest.frameStart =
       input.largest.frameStart + m_InputStencilCurrentFrameIndex

\* C22: across one Update() a stage moves Idle -> InformationPropagated ->
\* Streaming -> Idle in that order: GenerateData is entered only after
\* phases 1-3 have completed, a run that completes has made exactly N =
\* number-of-windows sub-steps, Streaming is left only by completion or by a
\* fatal error, and while streaming nothing but the next statement of
\* GenerateData can happen (no pause, no re-entry).
UpdateCycleOrder ==
  /\ [][(~Streaming /\ Streaming') => (~Idle /\ InformationPropagated)]_vars
  /\ [][(call.op \in { "none", "Configure" } /\ call'.op # call.op)
          => call'.op \in { "Configure", "UpdateOutputInformation" }]_vars
  /\ [][(Streaming /\ ~Streaming')
          => /\ Idle'
             /\ call'.result \in { "ok", "TypeMismatch", "UpstreamError",
                                   "HookError", "Unimplemented" }]_vars
  /\ [](GenerateDataSucceeded
          => /\ Len(call.ret)
                  = CeilDiv(Unbuffered.frameDuration, m_UnitOutputNumberOfFrames)
             /\ Cardinality(ReturnedCalls("Hook")) = Len(call.ret)
             /\ Cardinality(Calls("Pull")) = Len(call.ret))
  /\ [](Streaming
          => /\ call.result = "running"
             /\ ENABLED (GenerateDataSplit \/ GenerateDataLoop \/ GenerateDataPull
                           \/ GenerateDataHook \/ GenerateDataAfter)
             /\ ~ENABLED (Configure \/ UpdateInformationPass
                            \/ SetRequestedTemporalRegion \/ EnlargePass
                            \/ GenerateInputPass \/ GenerateDataPass))

\* An Update() with a stencil of one frame has streamed three windows and
\* is idle again.
UpdateCycleOrderWitness ==
  /\ GenerateDataSucceeded
  /\ Idle
  /\ m_InputStencilCurrentFrameIndex = 1
  /\ output.largest.frameStart = input.largest.frameStart + 1
  /\ Len(call.ret) = 3
  /\ Cardinality(ReturnedCalls("Hook")) = 3

\* GenerateData has received the vector of SplitRequestedTemporalRegion.
SplitReturned ==
  /\ GenerateDataCalled
  /\ Len(log) >= 2
  /\ log[2] = Event("Split", 0, 0, TRUE)

\* C23: when frameSkipPerOutput = 0, SplitRequestedTemporalRegion returns
\* ceil(unbufferedDuration / unitOutput) windows that are all identical (same
\* frameStart, duration unitInput).
ZeroSkipWindowsIdentical ==
  (SplitReturned /\ m_FrameSkipPerOutput = 0)
  => /\ Len(call.ret)
          = CeilDiv(Unbuffered.frameDuration, m_UnitOutputNumberOfFrames)
     /\ \A k \in 1..Len(call.ret) :
          /\ call.ret[k].frameStart = call.ret[1].frameStart
          /\ call.ret[k].frameDuration = m_UnitInputNumberOfFrames

\* Four windows of two frames for a request of four frames, stride zero.
ZeroSkipWindowsIdenticalWitness ==
  /\ SplitReturned
  /\ m_FrameSkipPerOutput = 0
  /\ Unbuffered.frameDuration = 4
  /\ Len(call.ret) = 4
  /\ call.ret[4] = call.ret[1]
  /\ call.ret[4].frameDuration = 2

\* The windows of the split as a function of the output's unbuffered request
\* and the configuration.
UnclampedWindows ==
  LET unbuffered == GetUnbufferedRequestedTemporalRegion(output)
      n      == CeilDiv(unbuffered.frameDuration, m_UnitOutputNumberOfFrames)
      first  == IF m_FrameSkipPerOutput > 0 THEN unbuffered.frameStart
                ELSE IF m_FrameSkipPerOutput < 0
                THEN unbuffered.frameStart + unbuffered.frameDuration
                       - m_UnitOutputNumberOfFrames
                ELSE 1
  IN  [k \in 1..n |->
         TemporalRegion(first + (k - 1) * m_FrameSkipPerOutput,
                        m_UnitInputNumberOfFrames)]

\* C24: SplitRequestedTemporalRegion neither clamps nor validates: with a
\* temporal output it raises no error, returns the windows computed from the
\* output's unbuffered requested region and the configuration alone, also
\* when a window lies outside the input's largest-possible region, and
\* leaves every region of the input and of the output unchanged.
SplitDoesNotClamp ==
  [][(gd.pc = "split" /\ output.temporal)
       => /\ gd'.pc = "loop"
          /\ call'.result = "running"
          /\ Len(gd'.requests) = Len(UnclampedWindows)
          /\ \A k \in 1..Len(gd'.requests) :
               gd'.requests[k] = UnclampedWindows[k]
          /\ call'.ret = gd'.requests
          /\ input' = input
          /\ output' = output]_vars

\* The split has returned three windows for an upstream of four frames; the
\* first two lie inside the upstream extent, the third does not.
SplitDoesNotClampWitness ==
  /\ gd.pc = "loop"
  /\ gd.i = 0
  /\ input.largest.frameDuration = 4
  /\ Len(gd.requests) = 3
  /\ IsInside(gd.requests[1], input.largest)
  /\ IsInside(gd.requests[2], input.largest)
  /\ ~IsInside(gd.requests[3], input.largest)

\* C25: the configuration persists: no sequence of
\* EnlargeOutputRequestedRegion, GenerateInputRequestedRegion,
\* UpdateOutputInformation, SplitRequestedTemporalRegion and GenerateData
\* calls, successful or failing, changes unitInputNumberOfFrames,
\* unitOutputNumberOfFrames, frameSkipPerOutput or
\* inputStencilCurrentFrameIndex, which start at 1, 1, 1 and 0.
ConfigurationPersists ==
  /\ [](call.op = "none" => config = << 1, 1, 1, 0 >>)
  /\ [][(call.op # "none" \/ call'.op # "Configure") => config' = config]_vars

\* A stage configured for reverse traversal has gone through the callbacks
\* and a GenerateData that failed in its second step.
ConfigurationPersistsWitness ==
  /\ GenerateDataEnded
  /\ call.result = "HookError"
  /\ Cardinality(ReturnedCalls("Hook")) = 1
  /\ config = << 2, 1, -1, 1 >>

\* C29: Phase 2 and Phase 4 agree on the input span: with an empty output
\* buffer and frameSkipPerOutput > 0, every window that
\* SplitRequestedTemporalRegion returns (and GenerateData requests) lies
\* inside the input requested region that
\* GenerateInputRequestedTemporalRegion computed for the same output
\* requested region, for every stencil index >= 0.
WindowsInsideNegotiatedInputRegion ==
  ( /\ SplitReturned
    /\ m_FrameSkipPerOutput > 0
    /\ call.output.buffered.frameDuration = 0 )
  => \A k \in 1..Len(call.ret) :
       IsInside(call.ret[k], call.input.requested)

\* C30: Phase 3 and Phase 2 are consistent: when UpdateOutputInformation has
\* computed the output's largest-possible region from the input's
\* (frameSkipPerOutput >= 1, input largest duration >= unitInput) and the
\* output requests exactly that whole region, the input requested region
\* computed by GenerateInputRequestedTemporalRegion is inside the input's
\* largest-possible region, for every unitOutput >= 1.
WholeExtentRequestInsideInputExtent ==
  ( /\ call.op = "GenerateInputRequestedRegion"
    /\ call.result = "ok"
    /\ m_FrameSkipPerOutput >= 1
    /\ input.largest.frameDuration >= m_UnitInputNumberOfFrames
    /\ call.output.requested.frameStart = output.largest.frameStart
    /\ call.output.requested.frameDuration
         \in { output.largest.frameDuration,
               m_UnitOutputNumberOfFrames
                 * CeilDiv(output.largest.frameDuration,
                           m_UnitOutputNumberOfFrames) } )
  => IsInside(input.requested, input.largest)

\* The frames of a region, as a set of frame indices.
Frames(region) ==
  region.frameStart .. (region.frameStart + region.frameDuration - 1)

\* The frames the returned hook call logged at position p has written, when
\* a hook call writes unitOutput frames from its outputFrameStart on.
WrittenSpan(p) ==
  log[p].frame .. (log[p].frame + m_UnitOutputNumberOfFrames - 1)

\* C31: when each hook call writes exactly unitOutput frames starting at its
\* outputFrameStart, after a successful GenerateData the written spans are
\* pairwise disjoint and contiguous, the first starts at the unbuffered
\* requested start, and their union contains every frame of the output's
\* unbuffered requested region.
OutputCoverage ==
  (GenerateDataSucceeded /\ call.output.temporal)
  => LET hooks == ReturnedCalls("Hook")
     IN  /\ \A p, q \in hooks :
               p # q => WrittenSpan(p) \cap WrittenSpan(q) = { }
         /\ \A p \in hooks :
               IF \A q \in hooks : p <= q
               THEN log[p].frame = Unbuffered.frameStart
               ELSE \E q \in hooks :
                      /\ q < p
                      /\ log[p].frame
                           = log[q].frame + m_UnitOutputNumberOfFrames
         /\ Frames(Unbuffered) \subseteq UNION { WrittenSpan(p) : p \in hooks }

\* Two spans of two frames written for an unbuffered request of three frames
\* behind one buffered frame.
OutputCoverageWitness ==
  /\ GenerateDataSucceeded
  /\ m_FrameSkipPerOutput > 0
  /\ m_UnitOutputNumberOfFrames = 2
  /\ call.output.requested = TemporalRegion(1, 4)
  /\ call.output.buffered = TemporalRegion(1, 1)
  /\ UNION { WrittenSpan(p) : p \in ReturnedCalls("Hook") } = 2..5
  /\ Frames(Unbuffered) = 2..4

\* C32: after UpdateOutputInformation the output's largest-possible duration
\* is a multiple of unitOutput, for every configuration with frameSkip >= 1
\* and input largest duration >= unitInput, also when (scannableDuration - 1)
\* is not divisible by frameSkip.
OutputLargestDurationUnitMultiple ==
  ( /\ UpdateInformationDone
    /\ m_FrameSkipPerOutput >= 1
    /\ call.input.largest.frameDuration >= m_UnitInputNumberOfFrames )
  => /\ ~Wrapped(output.largest.frameDuration)
     /\ output.largest.frameDuration % m_UnitOutputNumberOfFrames = 0

\* C33: no frame before the start of the sequence is ever pulled: in every
\* GenerateData run whose unbuffered requested start is >= 0, each window
\* assigned to the input's requested region before a pull has frameStart
\* >= 0 (or an error is raised before that pull), in forward and in reverse
\* traversal.
NoFrameBeforeSequenceStartPulled ==
  ( /\ GenerateDataCalled
    /\ call.output.temporal
    /\ Unbuffered.frameStart >= 0 )
  => /\ \A p \in Calls("Pull") : log[p].frame >= 0
     /\ gd.pc = "pull" => input.requested.frameStart >= 0

\* C34: the unsigned computation of the input duration in
\* GenerateInputRequestedTemporalRegion never wraps: for every configuration
\* and every requested duration d >= 0 (d = 0, frameSkip < 0 and
\* frameSkip > unitInput included) the stored duration is the exact integer
\* frameSkip * (numInputRequests - 1) + unitInput and is >= 0.
InputDurationNeverWraps ==
  ( /\ GenerateInputReached
    /\ call.input.temporal
    /\ call.result = "ok"
    /\ OutReq.frameDuration >= 0 )
  => LET numInputRequests ==
           CeilDiv(OutReq.frameDuration, m_UnitOutputNumberOfFrames)
     IN  /\ input.requested.frameDuration
              = m_FrameSkipPerOutput * (numInputRequests - 1)
                  + m_UnitInputNumberOfFrames
         /\ input.requested.frameDuration >= 0

\* C35: if the input's largest-possible duration is below unitInput,
\* UpdateOutputInformation sets the output's largest-possible duration to 0,
\* and in no configuration (here: none with frameSkip # 0) is a negative
\* intermediate value stored as a wrapped-around duration.
ShortInputGivesEmptyOutput ==
  (UpdateInformationDone /\ m_FrameSkipPerOutput # 0)
  => /\ call.input.largest.frameDuration < m_UnitInputNumberOfFrames
          => output.largest.frameDuration = 0
     /\ ~Wrapped(output.largest.frameDuration)

\* C36: when frameSkipPerOutput = 0, every window returned by
\* SplitRequestedTemporalRegion starts at frame index 1, whatever the start
\* of the output's unbuffered requested region.
ZeroSkipWindowsStartAtOne ==
  (SplitDone /\ m_FrameSkipPerOutput = 0)
  => \A k \in 1..Len(call.ret) : call.ret[k].frameStart = 1

\* Three windows at frame 1 for an unbuffered request that starts at frame 2.
ZeroSkipWindowsStartAtOneWitness ==
  /\ SplitDone
  /\ m_FrameSkipPerOutput = 0
  /\ Unbuffered.frameStart = 2
  /\ Len(call.ret) = 3
  /\ { call.ret[k].frameStart : k \in 1..3 } = { 1 }

\* The stepwise run of IsDimensionSizeLegal returns what the filter's check
\* of a dimension uses, for every size >= 1.
SizeCheckAgrees ==
  (fft.pc = "returned" /\ fft.arg >= 1)
  => fft.result = IsDimensionSizeLegal(fft.filter, fft.arg)

\* C37: IsDimensionSizeLegal terminates for every n >= 0 (every division of
\* its inner loop makes n smaller, so the loop is left) and returns false
\* for n = 0, in the forward and in the inverse FFT filter.
SizeCheckTerminates ==
  /\ (fft.pc = "inner" /\ fft.n % fft.ifac = 0)
       => fft.n \div fft.ifac < fft.n
  /\ (fft.pc = "returned" /\ fft.arg = 0) => fft.result = FALSE

=============================================================================
